---- MODULE Spec2Model ----
(***************************************************************************)
(* Response-routing core of the WhatsApp agent.                            *)
(*                                                                         *)
(* One inbound text message is taken through processTextMessage ->         *)
(* generateResponse -> findRelevantQAPairs -> generateAIResponse, while    *)
(* the QA-pair management routes (create / update / delete) change the     *)
(* knowledge base concurrently.                                            *)
(*                                                                         *)
(* Around it: the webhook handler that calls processTextMessage and        *)
(* updateMessageStatus, EnhancedWhatsAppService.sendMessage with its retry *)
(* loop, and the find-or-create of a client by two concurrent callers.     *)
(*                                                                         *)
(* Texts are sequences of characters (one-character strings) or of fixed   *)
(* text blocks.  Similarities are integers in hundredths of a percent      *)
(* (90.00 % = 9000), the precision calculateSimilarity rounds to.          *)
(***************************************************************************)
EXTENDS Integers, Sequences, FiniteSets, TLC

\* ------------------------------------------------------------------ bounds
MaxEntries == 2      \* QA pairs ever created by the management routes
MaxMgmt == 2         \* management requests served in one behaviour
MaxRows == 12        \* rows of the tables findRelevantQAPairs is run against
MaxWords == 2        \* words of the texts the similarity functions are run on
MaxItems == 2        \* messages or statuses in one webhook request

\* ------------------------------------------------------- program constants
similarityThreshold == 9000     \* generateResponse: 90 % threshold
hintThreshold == 5000           \* generateResponse: "decent" similarity, 50 %
floorThreshold == 2000          \* findRelevantQAPairs: filter > 20 %
limit == 5                      \* findRelevantQAPairs: default limit
exactSimilarity == 10000        \* findRelevantQAPairs: exact matches get 100
defaultSimilarity == 5000       \* findRelevantQAPairs: fallback lookup gets 50
maxSimilarity == 10000          \* calculateContextualSimilarity: cap at 100 %
retryAttempts == 3              \* EnhancedWhatsAppService.sendMessage: default
idSuffixLength == 20            \* updateMessageStatus: lookup by the id's end
idPrefixLength == 30            \* updateMessageStatus: lookup by the id's start
idContainsLength == 20          \* updateMessageStatus: updateMany's contains

\* ------------------------------------------------------------------- texts
\* The character that stands for an Arabic letter (U+0645).
ArabicChars == {"U0645"}

\* String.prototype.toLowerCase on one character.
LowerChar(c) == IF c = "H" THEN "h" ELSE IF c = "I" THEN "i" ELSE c

\* String.prototype.toLowerCase.
ToLowerCase(s) == [i \in 1..Len(s) |-> LowerChar(s[i])]

RECURSIVE TrimStart(_)
TrimStart(s) == IF s # <<>> /\ Head(s) = " " THEN TrimStart(Tail(s)) ELSE s

RECURSIVE TrimEnd(_)
TrimEnd(s) == IF s # <<>> /\ s[Len(s)] = " " THEN TrimEnd(SubSeq(s, 1, Len(s) - 1)) ELSE s

\* String.prototype.trim.
Trim(s) == TrimEnd(TrimStart(s))

\* The normalisation calculateSimilarity applies to both of its arguments.
Normalize(s) == ToLowerCase(Trim(s))

\* Inbound message bodies.
Messages == { <<" ", "h", "I">>, <<"U0645", " ">> }

\* Request bodies of the management routes (before the route trims them).
RawQuestions == { <<>>, <<" ", "H", "i">>, <<"U0645">> }
CreateAnswers(id) == { <<>>, <<"a", ToString(id)>> }
UpdateAnswers(id) == { <<>>, <<" ">>, <<"a", ToString(id)>> }
Priorities == {0, 1}

\* Values calculateContextualSimilarity can return for an entry against the
\* message of the pass: the band edges of the router and of the floor filter.
Scores == {2000, 4999, 5000, 8999, 9000, 10000}

\* ------------------------------------------------------- fixed reply texts
\* generateResponse's outer catch.
ErrorNotice == << "Sorry, there was an error processing your message. Please try again later." >>

\* The "related topic" suffix generateResponse appends before the question.
HintPrefix == << "\n\n(bulb) *Related topic*: " >>

\* getDefaultResponse(message, language): the canned greeting, one per language.
getDefaultResponse(msg, language) == << "default greeting", language >>

\* detectLanguage: Arabic as soon as the text holds an Arabic letter.
detectLanguage(msg) == IF \E i \in 1..Len(msg) : msg[i] \in ArabicChars THEN "ar" ELSE "en"

\* ---------------------------------------------------------- knowledge base
\* A QAPair row.  id doubles as createdAt (rows are created in id order).
\* ctxSim is the value calculateContextualSimilarity returns for this row
\* against the message of the pass; malformed marks a row on which it throws
\* instead (a null among the tags, written outside the management routes).
ScoresFor(msg, question) ==
    IF Normalize(msg) = Normalize(question) THEN {maxSimilarity} ELSE Scores

\* calculateContextualSimilarity(message, qa.question, qa.answer, qa.tags).
calculateContextualSimilarity(msg, qa) == qa.ctxSim

\* findExactMatch(message): the active rows whose question equals the message
\* after case/whitespace normalisation, highest priority first.
RECURSIVE orderByPriority(_)
orderByPriority(rows) ==
    IF rows = {} THEN <<>>
    ELSE LET first == CHOOSE r \in rows : \A o \in rows \ {r} :
                          \/ r.priority > o.priority
                          \/ r.priority = o.priority /\ r.id > o.id
         IN  <<first>> \o orderByPriority(rows \ {first})

findExactMatch(kbv, msg) ==
    orderByPriority({qa \in kbv : qa.isActive /\ Normalize(qa.question) = Normalize(msg)})

\* Slip: the where clause is missing.
findManyActive_all(kbv) == orderByPriority(kbv)

\* prisma.qAPair.findMany({ where: { isActive: true },
\*                          orderBy: [priority desc, createdAt desc] }).
findManyActive(kbv) == orderByPriority({qa \in kbv : qa.isActive})

\* A QAPairWithSimilarity.
withSimilarity(qa, sim) ==
    [id |-> qa.id, question |-> qa.question, answer |-> qa.answer,
     priority |-> qa.priority, isActive |-> qa.isActive, similarity |-> sim]

\* Slip: the tie is broken by ascending priority.
compareQAPairs_ascending(a, b) ==
    IF b.similarity # a.similarity THEN b.similarity - a.similarity
    ELSE a.priority - b.priority

\* The comparator of the sort: negative when a goes first.
compareQAPairs(a, b) ==
    IF b.similarity # a.similarity THEN b.similarity - a.similarity
    ELSE b.priority - a.priority

\* Array.prototype.sort with compareQAPairs (stable).
RECURSIVE insertSorted(_, _)
insertSorted(sorted, c) ==
    IF sorted = <<>> THEN <<c>>
    ELSE IF compareQAPairs(Head(sorted), c) <= 0
         THEN <<Head(sorted)>> \o insertSorted(Tail(sorted), c)
         ELSE <<c>> \o sorted

RECURSIVE sortQAPairs(_)
sortQAPairs(seq) ==
    IF seq = <<>> THEN <<>>
    ELSE insertSorted(sortQAPairs(SubSeq(seq, 1, Len(seq) - 1)), seq[Len(seq)])

\* Slip: the floor comparison is not strict.
aboveFloor_inclusive(seq) == SelectSeq(seq, LAMBDA c : c.similarity >= floorThreshold)

\* Array.prototype.filter(qa => qa.similarity > 20).
aboveFloor(seq) == SelectSeq(seq, LAMBDA c : c.similarity > floorThreshold)

\* Array.prototype.slice(0, n).
slice(seq, n) == SubSeq(seq, 1, IF Len(seq) < n THEN Len(seq) ELSE n)

\* findRelevantQAPairs, the scoring path: score every active row, drop the
\* rows at or under the floor, rank, keep the first `limit`.
scoreAndRank(rows, msg) ==
    IF rows = <<>> THEN <<>>
    ELSE LET scored == [i \in 1..Len(rows) |->
                          withSimilarity(rows[i], calculateContextualSimilarity(msg, rows[i]))]
         IN  slice(sortQAPairs(aboveFloor(scored)), limit)

\* Slip: the exact matches get the similarity of the fallback lookup.
exactAsCandidates_default(matches) ==
    [i \in 1..Len(matches) |-> withSimilarity(matches[i], defaultSimilarity)]

\* findRelevantQAPairs, the exact path: every exact match gets 100.
exactAsCandidates(matches) ==
    [i \in 1..Len(matches) |-> withSimilarity(matches[i], exactSimilarity)]

\* findMatchByKeywords / findMatchByFullMessage (the "original method" of the
\* error fallback): a text search on the question column. It selects the
\* active rows whose question is one of the questions the search text hits,
\* highest priority first, at most n of them.
findMatchByKeywords(kbv, n) ==
    { slice(orderByPriority({qa \in kbv : qa.isActive /\ qa.question \in hit}), n) :
        hit \in SUBSET {qa.question : qa \in kbv} }

\* Slip: the rows of the fallback lookup get the similarity of an exact match.
fallbackAsCandidates_exact(found) ==
    [i \in 1..Len(found) |-> withSimilarity(found[i], exactSimilarity)]

\* findRelevantQAPairs, the fallback path: every row found gets 50.
fallbackAsCandidates(found) ==
    [i \in 1..Len(found) |-> withSimilarity(found[i], defaultSimilarity)]

\* ----------------------------------------------------- generative fallback
aiText(what, language) == << what, language >>

\* OpenAIService.isConfigured: an API key is set.
OpenAIService_isConfigured(outcome) == outcome # "unconfigured"

\* OpenAIService.generateResponse: throws on a fetch/HTTP error and on empty
\* content, returns the content otherwise.
OpenAIService_generateResponse(outcome, language) ==
    IF outcome = "content"
    THEN [threw |-> FALSE, text |-> aiText("openai content", language)]
    ELSE [threw |-> TRUE, text |-> <<>>]

\* The AIResponse objects AIResponseGenerator.generateResponse returns.
appointmentConfirmation(language) ==
    [response |-> aiText("appointment confirmation", language),
     confidence |-> 98, source |-> "appointment_booking", error |-> FALSE]

appointmentError(language) ==
    [response |-> aiText("Sorry, there was an error booking your appointment. Please try again or contact us directly.", language),
     confidence |-> 70, source |-> "appointment_booking", error |-> TRUE]

enhancedSearchSummary(language) ==
    [response |-> aiText("property search summary", language),
     confidence |-> 98, source |-> "enhanced_property_search", error |-> FALSE]

basicSearchResponse(language) ==
    [response |-> aiText("property search results", language),
     confidence |-> 85, source |-> "property_search", error |-> FALSE]

openAIResponse(text) ==
    [response |-> text, confidence |-> 90, source |-> "openai_agent", error |-> FALSE]

ruleBasedResponse(language) ==
    [response |-> aiText("rule-based response", language),
     confidence |-> 85, source |-> "ai_agent", error |-> FALSE]

generateDefaultResponse(language) ==
    [response |-> aiText("generator default response", language),
     confidence |-> 60, source |-> "ai_agent", error |-> FALSE]

\* The apology of AIResponseGenerator.generateResponse's outer catch.
aiErrorResponse(language) ==
    [response |-> aiText("Sorry, an error occurred while processing your request. Please try again.", language),
     confidence |-> 10, source |-> "ai_agent", error |-> TRUE]

\* What generateAIResponse hands to its caller: a rejection or an AIResponse.
aiRejected == [threw |-> TRUE, value |-> [response |-> <<>>, confidence |-> 0, source |-> "none", error |-> TRUE]]
aiResolved(v) == [threw |-> FALSE, value |-> v]
aiNotCalled == [threw |-> FALSE, value |-> [response |-> <<>>, confidence |-> 0, source |-> "none", error |-> FALSE]]

\* ------------------------------------------------- generateResponse, pure
\* Slip: the threshold comparison is strict.
highSimilarityMatch_strict(qas) ==
    qas # <<>> /\ qas[1].similarity > similarityThreshold

\* The branch of generateResponse that answers from the knowledge base
\* without calling the generator.
highSimilarityMatch(qas) ==
    qas # <<>> /\ qas[1].similarity >= similarityThreshold

\* Slip: the hint comparison is strict.
hintApplies_strict(bestMatch) == bestMatch.similarity > hintThreshold

\* The hint test of generateResponse.
hintApplies(bestMatch) == bestMatch.similarity >= hintThreshold

\* Slip: the catch block of the candidate branch appends the hint to the answer.
respondWithAI_hintOnFailure(qas, ai, msg, language) ==
    IF qas # <<>>
    THEN IF ai.threw
         THEN IF hintApplies(qas[1])
              THEN qas[1].answer \o HintPrefix \o qas[1].question
              ELSE qas[1].answer
         ELSE IF hintApplies(qas[1])
              THEN ai.value.response \o HintPrefix \o qas[1].question
              ELSE ai.value.response
    ELSE IF ai.threw THEN getDefaultResponse(msg, language)
         ELSE ai.value.response

\* Slip: the catch block of the no-candidate branch returns nothing.
respondWithAI_noDefault(qas, ai, msg, language) ==
    IF qas # <<>>
    THEN IF ai.threw THEN qas[1].answer
         ELSE IF hintApplies(qas[1])
              THEN ai.value.response \o HintPrefix \o qas[1].question
              ELSE ai.value.response
    ELSE IF ai.threw THEN <<>>
         ELSE ai.value.response

\* The two try/catch blocks around generateAIResponse.
respondWithAI(qas, ai, msg, language) ==
    IF qas # <<>>
    THEN IF ai.threw THEN qas[1].answer
         ELSE IF hintApplies(qas[1])
              THEN ai.value.response \o HintPrefix \o qas[1].question
              ELSE ai.value.response
    ELSE IF ai.threw THEN getDefaultResponse(msg, language)
         ELSE ai.value.response

\* ------------------------------------------------- calculateSimilarity.ts
\* Scores are integers in hundredths of a percent; a quotient the code keeps
\* as a double is cut to that precision (floor) where it is computed.

\* \s and \w of the regular expressions, on the characters used here.
isSpace(c) == c = " "
WordChars == {"H", "I", "h", "i", "a", "1", "2"}

Min(x, y) == IF x < y THEN x ELSE y
Max(x, y) == IF x > y THEN x ELSE y

\* One row of the matrix of levenshteinDistance: row i from row i - 1, cell
\* after cell; rows are sequences, cell j is at index j + 1.
RECURSIVE levenshteinRow(_, _, _, _, _)
levenshteinRow(prev, str1, c2, j, acc) ==
    IF j > Len(str1) THEN acc
    ELSE LET cell == IF c2 = str1[j] THEN prev[j]
                     ELSE Min(prev[j] + 1, Min(acc[j] + 1, prev[j + 1] + 1))
         IN  levenshteinRow(prev, str1, c2, j + 1, Append(acc, cell))

RECURSIVE levenshteinRows(_, _, _, _)
levenshteinRows(prev, str1, str2, i) ==
    IF i > Len(str2) THEN prev
    ELSE levenshteinRows(levenshteinRow(prev, str1, str2[i], 1, <<i>>), str1, str2, i + 1)

levenshteinDistance(str1, str2) ==
    levenshteinRows([j \in 1..(Len(str1) + 1) |-> j - 1], str1, str2, 1)[Len(str1) + 1]

levenshteinSimilarity(str1, str2) ==
    LET maxLength == Max(Len(str1), Len(str2))
    IN  IF maxLength = 0 THEN 10000
        ELSE ((maxLength - levenshteinDistance(str1, str2)) * 10000) \div maxLength

\* String.prototype.split(/\s+/): the pieces between the runs of white space;
\* a leading or trailing run leaves an empty piece, "" gives one empty piece.
RECURSIVE splitFrom(_, _, _, _)
splitFrom(str, i, word, inRun) ==
    IF i > Len(str) THEN << word >>
    ELSE IF isSpace(str[i])
         THEN IF inRun THEN splitFrom(str, i + 1, word, TRUE)
              ELSE << word >> \o splitFrom(str, i + 1, <<>>, TRUE)
         ELSE splitFrom(str, i + 1, Append(word, str[i]), FALSE)

split(str) == splitFrom(str, 1, <<>>, FALSE)

\* The members of a list, as a Set.
setOf(list) == { list[i] : i \in 1..Len(list) }

jaccardSimilarity(str1, str2) ==
    LET words1 == setOf(split(ToLowerCase(str1)))
        words2 == setOf(split(ToLowerCase(str2)))
        intersection == words1 \cap words2
        union == words1 \cup words2
    IN  IF Cardinality(union) = 0 THEN 10000
        ELSE (Cardinality(intersection) * 10000) \div Cardinality(union)

\* The integer part of a square root.
RECURSIVE sqrtBetween(_, _, _)
sqrtBetween(n, lo, hi) ==
    IF lo = hi THEN lo
    ELSE LET mid == (lo + hi + 1) \div 2
         IN  IF mid * mid <= n THEN sqrtBetween(n, mid, hi)
             ELSE sqrtBetween(n, lo, mid - 1)

\* Occurrences of word in a list of words.
frequency(words, word) == Cardinality({ i \in 1..Len(words) : words[i] = word })

RECURSIVE sumOver(_, _, _, _)
sumOver(allWords, words1, words2, kind) ==
    IF allWords = {} THEN 0
    ELSE LET word == CHOOSE w \in allWords : TRUE
             f1 == frequency(words1, word)
             f2 == frequency(words2, word)
             term == IF kind = "dot" THEN f1 * f2
                     ELSE IF kind = "m1" THEN f1 * f1 ELSE f2 * f2
         IN  term + sumOver(allWords \ {word}, words1, words2, kind)

\* dotProduct / (sqrt(magnitude1) * sqrt(magnitude2)) * 100, as the root of
\* 10^8 * dotProduct^2 / (magnitude1 * magnitude2).
cosineSimilarity(str1, str2) ==
    LET words1 == split(ToLowerCase(str1))
        words2 == split(ToLowerCase(str2))
        allWords == setOf(words1) \cup setOf(words2)
        dotProduct == sumOver(allWords, words1, words2, "dot")
        magnitude1 == sumOver(allWords, words1, words2, "m1")
        magnitude2 == sumOver(allWords, words1, words2, "m2")
        p == dotProduct * dotProduct
        q == magnitude1 * magnitude2
        high == (p * 10000) \div q
        low == (((p * 10000) % q) * 10000) \div q
    IN  IF magnitude1 = 0 \/ magnitude2 = 0 THEN 0
        ELSE sqrtBetween(high * 10000 + low, 0, 10000)

\* String.prototype.match(/\b\w{3,}\b/g): the maximal runs of word characters
\* that are at least three characters long.
RECURSIVE keywordsFrom(_, _, _)
keywordsFrom(str, i, run) ==
    LET found == IF Len(run) >= 3 THEN << run >> ELSE <<>>
    IN  IF i > Len(str) THEN found
        ELSE IF str[i] \in WordChars THEN keywordsFrom(str, i + 1, Append(run, str[i]))
             ELSE found \o keywordsFrom(str, i + 1, <<>>)

\* Slip: the overlap is measured against the keywords of the first text.
keywordSimilarity_ofFirst(str1, str2) ==
    LET keywords1 == keywordsFrom(ToLowerCase(str1), 1, <<>>)
        keywords2 == keywordsFrom(ToLowerCase(str2), 1, <<>>)
        set1 == setOf(keywords1)
        set2 == setOf(keywords2)
    IN  IF Len(keywords1) = 0 /\ Len(keywords2) = 0 THEN 10000
        ELSE IF Len(keywords1) = 0 \/ Len(keywords2) = 0 THEN 0
        ELSE (Cardinality(set1 \cap set2) * 10000) \div Cardinality(set1)

keywordSimilarity(str1, str2) ==
    LET keywords1 == keywordsFrom(ToLowerCase(str1), 1, <<>>)
        keywords2 == keywordsFrom(ToLowerCase(str2), 1, <<>>)
        set1 == setOf(keywords1)
        set2 == setOf(keywords2)
    IN  IF Len(keywords1) = 0 /\ Len(keywords2) = 0 THEN 10000
        ELSE IF Len(keywords1) = 0 \/ Len(keywords2) = 0 THEN 0
        ELSE (Cardinality(set1 \cap set2) * 10000) \div Cardinality(set1 \cup set2)

\* The weighted combination, rounded to two decimals: Math.round(x * 100) / 100.
weightedScore(msg1, msg2) ==
    (  2 * levenshteinSimilarity(msg1, msg2) + 3 * jaccardSimilarity(msg1, msg2)
     + 3 * cosineSimilarity(msg1, msg2) + 2 * keywordSimilarity(msg1, msg2) + 5) \div 10

\* Slip: the arguments are trimmed but not lower-cased.
calculateSimilarity_caseSensitive(userMessage, qaQuestion) ==
    LET msg1 == Trim(userMessage)
        msg2 == Trim(qaQuestion)
    IN  IF msg1 = msg2 THEN 10000
        ELSE IF Len(msg1) = 0 \/ Len(msg2) = 0 THEN 0
        ELSE weightedScore(msg1, msg2)

\* Slip: the test for an empty argument comes before the test for equality.
calculateSimilarity_emptyFirst(userMessage, qaQuestion) ==
    LET msg1 == ToLowerCase(Trim(userMessage))
        msg2 == ToLowerCase(Trim(qaQuestion))
    IN  IF Len(msg1) = 0 \/ Len(msg2) = 0 THEN 0
        ELSE IF msg1 = msg2 THEN 10000
        ELSE weightedScore(msg1, msg2)

calculateSimilarity(userMessage, qaQuestion) ==
    LET msg1 == ToLowerCase(Trim(userMessage))
        msg2 == ToLowerCase(Trim(qaQuestion))
    IN  IF msg1 = msg2 THEN 10000
        ELSE IF Len(msg1) = 0 \/ Len(msg2) = 0 THEN 0
        ELSE weightedScore(msg1, msg2)

\* String.prototype.startsWith / endsWith.
startsWith(t, p) == Len(t) >= Len(p) /\ SubSeq(t, 1, Len(p)) = p
endsWith(t, p) == Len(t) >= Len(p) /\ SubSeq(t, Len(t) - Len(p) + 1, Len(t)) = p

\* String.prototype.includes.
includes(str, sub) ==
    \E i \in 0..(Len(str) - Len(sub)) : SubSeq(str, i + 1, i + Len(sub)) = sub

\* calculateContextualSimilarity: the tags the user message matches.
tagMatches(userMessage, qaTags) ==
    LET userWords == split(ToLowerCase(userMessage))
    IN  SelectSeq(qaTags, LAMBDA tag :
            \E i \in 1..Len(userWords) :
                \/ includes(userWords[i], ToLowerCase(tag))
                \/ includes(ToLowerCase(tag), userWords[i]))

\* Slip: the tag boost is not capped.
tagBoost_uncapped(userMessage, qaTags) == Len(tagMatches(userMessage, qaTags)) * 500

\* calculateContextualSimilarity: 5 % for each matching tag, 15 % at most.
tagBoost(userMessage, qaTags) ==
    LET n == Len(tagMatches(userMessage, qaTags))
    IN  IF n > 0 THEN Min(n * 500, 1500) ELSE 0

\* calculateContextualSimilarity: a tenth of the similarity to the answer
\* when that exceeds 30 %, 10 % at most.
answerBoost(userMessage, qaAnswer) ==
    LET answerSimilarity == calculateSimilarity(userMessage, qaAnswer)
    IN  IF answerSimilarity > 3000 THEN Min(answerSimilarity \div 10, 1000) ELSE 0

\* calculateContextualSimilarity before the cap: the base score, the tag
\* boost and the answer boost.
boostedSimilarity(userMessage, qaQuestion, qaAnswer, qaTags) ==
    calculateSimilarity(userMessage, qaQuestion)
        + tagBoost(userMessage, qaTags) + answerBoost(userMessage, qaAnswer)

\* Slip: the cap is missing.
contextualSimilarity_uncapped(userMessage, qaQuestion, qaAnswer, qaTags) ==
    boostedSimilarity(userMessage, qaQuestion, qaAnswer, qaTags)

\* calculateContextualSimilarity on texts: Math.min(score, 100).
contextualSimilarity(userMessage, qaQuestion, qaAnswer, qaTags) ==
    Min(boostedSimilarity(userMessage, qaQuestion, qaAnswer, qaTags), maxSimilarity)

\* No call of the similarity functions is under test.
noCall == [fn |-> "none"]
noResult == [threw |-> FALSE, value |-> 0]

\* ------------------------------------------------------------------- state
VARIABLES
    kb,            \* the QAPair table: a set of rows
    nextId,        \* id (and creation rank) of the next row created
    mgmtOps,       \* management requests served so far
    message,       \* body of the inbound message
    pc,            \* where processTextMessage / generateResponse stands
    relevantQAs,   \* generateResponse: the list findRelevantQAPairs returned
    response,      \* generateResponse: the local `response`
    returned,      \* what generateResponse resolved to
    sent,          \* texts handed to the WhatsApp API for the sender
    ai,            \* what generateAIResponse handed back (aiNotCalled before)
    aiCalls,       \* number of calls of generateAIResponse
    openAIFailed,  \* history: OpenAIService.generateResponse threw in this pass
    exactMatches,  \* history: what findExactMatch returned
    kbError,       \* history: the try block of findRelevantQAPairs threw
    persistError,  \* history: a persistence call of generateResponse threw
    snaps,         \* history: contents of the table while the pass read it
    scoringError,  \* history: the scoring of one row threw
    simInput,      \* arguments of a call of the similarity functions
    simOutput,     \* what that call returned
    hookPc,        \* where the webhook handler / processTextMessage stands
    request,       \* the webhook request being served
    item,          \* index of the message or status the handler's loop is at
    httpStatus,    \* status code of the handler's response (0: none yet)
    reply,         \* processTextMessage: what generateResponse resolved to
    escaped,       \* history: processTextMessage rejected
    sends,         \* history: the calls of sendWhatsAppMessage, in order
    tracked,       \* history: the calls of trackSentMessage, in order
    msgTable,      \* the Message table: a set of rows
    clientTable,   \* the Client table: a set of rows
    smPc,          \* where EnhancedWhatsAppService.sendMessage stands
    smCall,        \* sendMessage: options, locals and result of the call
    procs          \* the concurrent find-or-create calls, by caller

\* The webhook handler and processTextMessage.
hookVars == << hookPc, request, item, httpStatus, reply, escaped >>

\* The transport and the tables behind prisma.
dbVars == << sends, tracked, msgTable, clientTable >>

\* EnhancedWhatsAppService.sendMessage.
smVars == << smPc, smCall >>

\* What the response-routing pass does not touch.
extVars == << hookVars, dbVars, smVars, procs >>

vars == << kb, nextId, mgmtOps, message, pc, relevantQAs, response, returned,
           sent, ai, aiCalls, openAIFailed, exactMatches, kbError,
           persistError, snaps, scoringError, simInput, simOutput, extVars >>

\* The call of calculateSimilarity / calculateContextualSimilarity under test.
simVars == << simInput, simOutput >>

mgmtVars == << kb, nextId, mgmtOps, snaps >>
passVars == << message, pc, relevantQAs, response, returned, sent, ai, aiCalls,
               openAIFailed, exactMatches, kbError, persistError, scoringError,
               simVars >>

language == detectLanguage(message)

\* No webhook request is being served.
noRequest == [kind |-> "none", items |-> << >>]
hookIdle ==
    /\ hookPc = "off"
    /\ request = noRequest
    /\ item = 0
    /\ httpStatus = 0
    /\ reply = << >>
    /\ escaped = FALSE

\* Nothing was sent or tracked and the two tables are empty.
dbEmpty ==
    /\ sends = << >>
    /\ tracked = << >>
    /\ msgTable = {}
    /\ clientTable = {}

\* No call of EnhancedWhatsAppService.sendMessage is under way.
noSendCall == [to |-> "none"]
smIdle ==
    /\ smPc = "off"
    /\ smCall = noSendCall

Init ==
    /\ kb = {}
    /\ nextId = 1
    /\ mgmtOps = 0
    /\ message \in Messages
    /\ pc = "received"
    /\ relevantQAs = <<>>
    /\ response = <<>>
    /\ returned = <<>>
    /\ sent = <<>>
    /\ ai = aiNotCalled
    /\ aiCalls = 0
    /\ openAIFailed = FALSE
    /\ exactMatches = <<>>
    /\ kbError = FALSE
    /\ persistError = FALSE
    /\ snaps = {}
    /\ scoringError = FALSE
    /\ simInput = noCall
    /\ simOutput = noResult
    /\ hookIdle /\ dbEmpty /\ smIdle /\ procs = << >>

\* ------------------------------------------------------- management routes
\* The pass has not yet left the scoring path of findRelevantQAPairs; what the
\* routes do to the table after its last read cannot reach the pass.
observable == pc \in {"received", "persist", "exact", "findMany"}

\* The pass is between its first and its last read of the scoring path.
reading == pc \in {"exact", "findMany"}

record(kbNew) == snaps' = IF reading THEN snaps \cup {kbNew} ELSE snaps

\* POST / with question and answer in the body: `!question || !answer`
\* rejects an empty one, then both are trimmed; priority and isActive take
\* their defaults.
CreateQAPair ==
    /\ observable
    /\ mgmtOps < MaxMgmt
    /\ nextId <= MaxEntries
    /\ \E q \in RawQuestions, a \in CreateAnswers(nextId) :
         /\ q # <<>> /\ a # <<>>
         /\ \E sim \in ScoresFor(message, Trim(q)) :
              kb' = kb \cup {[id |-> nextId, question |-> Trim(q), answer |-> Trim(a),
                              priority |-> 0, isActive |-> TRUE, ctxSim |-> sim,
                              malformed |-> FALSE]}
    /\ nextId' = nextId + 1
    /\ mgmtOps' = mgmtOps + 1
    /\ record(kb')
    /\ UNCHANGED << extVars, passVars >>

\* PUT /:id with one of priority, isActive, answer in the body; an empty
\* answer is skipped (`answer && ...`), a non-empty one is trimmed.
UpdateQAPair ==
    /\ observable
    /\ mgmtOps < MaxMgmt
    /\ \E row \in kb :
         \E new \in
              { [row EXCEPT !.priority = p] : p \in Priorities }
              \cup { [row EXCEPT !.isActive = act] : act \in BOOLEAN }
              \cup { [row EXCEPT !.answer = Trim(a)] : a \in UpdateAnswers(row.id) \ {<<>>} } :
            /\ new # row
            /\ kb' = (kb \ {row}) \cup {new}
    /\ mgmtOps' = mgmtOps + 1
    /\ record(kb')
    /\ UNCHANGED << extVars, nextId, passVars >>

\* DELETE /:id.
DeleteQAPair ==
    /\ observable
    /\ mgmtOps < MaxMgmt
    /\ \E row \in kb : kb' = kb \ {row}
    /\ mgmtOps' = mgmtOps + 1
    /\ record(kb')
    /\ UNCHANGED << extVars, nextId, passVars >>

\* ------------------------------------------------------ processTextMessage
\* processTextMessage up to the call of generateResponse: getSenderName and
\* markAsRead (which swallows its own errors).
Receive ==
    /\ pc = "received"
    /\ pc' = "persist"
    /\ UNCHANGED << extVars, simVars, scoringError, mgmtVars, message, relevantQAs, response, returned, sent, ai,
                    aiCalls, openAIFailed, exactMatches, kbError, persistError >>

\* processTextMessage's catch: a step before the reply throws and the fixed
\* apology is sent through sendWhatsAppMessage (which never throws).
ReceiveThrows ==
    /\ pc = "received"
    /\ \E delivered \in BOOLEAN :
         sent' = IF delivered THEN Append(sent, ErrorNotice) ELSE sent
    /\ pc' = "failed"
    /\ UNCHANGED << extVars, simVars, scoringError, mgmtVars, message, relevantQAs, response, returned, ai,
                    aiCalls, openAIFailed, exactMatches, kbError, persistError >>

\* processTextMessage after generateResponse resolved: send the reply.
SendReply ==
    /\ pc = "done"
    /\ \E delivered \in BOOLEAN :
         sent' = IF delivered THEN Append(sent, returned) ELSE sent
    /\ pc' = "replied"
    /\ UNCHANGED << extVars, simVars, scoringError, mgmtVars, message, relevantQAs, response, returned, ai,
                    aiCalls, openAIFailed, exactMatches, kbError, persistError >>

\* -------------------------------------------------------- generateResponse
\* findOrCreateClient, saveMessage(incoming), updateClientActivity.
PersistIncoming ==
    /\ pc = "persist"
    /\ pc' = "exact"
    /\ snaps' = {kb}
    /\ UNCHANGED << extVars, simVars, scoringError, kb, nextId, mgmtOps, message, relevantQAs, response, returned,
                    sent, ai, aiCalls, openAIFailed, exactMatches, kbError,
                    persistError >>

\* One of the three persistence calls throws: the outer catch answers.
PersistIncomingThrows ==
    /\ pc = "persist"
    /\ persistError' = TRUE
    /\ returned' = ErrorNotice
    /\ pc' = "done"
    /\ UNCHANGED << extVars, simVars, scoringError, mgmtVars, message, relevantQAs, response, sent, ai, aiCalls,
                    openAIFailed, exactMatches, kbError >>

\* findRelevantQAPairs: the exact-match lookup and its short circuit.
FindExactMatch ==
    /\ pc = "exact"
    /\ exactMatches' = findExactMatch(kb, message)
    /\ IF Len(exactMatches') > 0
       THEN /\ relevantQAs' = exactAsCandidates(exactMatches')
            /\ pc' = "decide"
       ELSE /\ relevantQAs' = relevantQAs
            /\ pc' = "findMany"
    /\ UNCHANGED << extVars, simVars, scoringError, mgmtVars, message, response, returned, sent, ai, aiCalls,
                    openAIFailed, kbError, persistError >>

\* findRelevantQAPairs: findExactMatch throws (table unreachable).
FindExactMatchThrows ==
    /\ pc = "exact"
    /\ kbError' = TRUE
    /\ pc' = "fallback"
    /\ UNCHANGED << extVars, simVars, scoringError, mgmtVars, message, relevantQAs, response, returned, sent, ai,
                    aiCalls, openAIFailed, exactMatches, persistError >>

\* findRelevantQAPairs: read the active rows, score, filter, sort, slice.
ScoreAllCandidates ==
    /\ pc = "findMany"
    /\ \A qa \in kb : qa.isActive => ~qa.malformed
    /\ relevantQAs' = scoreAndRank(findManyActive(kb), message)
    /\ pc' = "decide"
    /\ UNCHANGED << extVars, simVars, scoringError, mgmtVars, message, response, returned, sent, ai, aiCalls,
                    openAIFailed, exactMatches, kbError, persistError >>

\* findRelevantQAPairs: findMany throws (table unreachable).
ScoreAllCandidatesThrows ==
    /\ pc = "findMany"
    /\ kbError' = TRUE
    /\ pc' = "fallback"
    /\ UNCHANGED << extVars, simVars, scoringError, mgmtVars, message, relevantQAs, response, returned, sent, ai,
                    aiCalls, openAIFailed, exactMatches, persistError >>

\* findRelevantQAPairs: calculateContextualSimilarity throws on one of the
\* rows read, inside the map callback; the exception leaves the try block.
ScoreOneThrows ==
    /\ pc = "findMany"
    /\ \E qa \in kb : qa.isActive /\ qa.malformed
    /\ kbError' = TRUE
    /\ scoringError' = TRUE
    /\ pc' = "fallback"
    /\ UNCHANGED << extVars, simVars, mgmtVars, message, relevantQAs, response, returned, sent, ai,
                    aiCalls, openAIFailed, exactMatches, persistError >>

\* findRelevantQAPairs: the catch block, "fallback to original method".
FallbackLookup ==
    /\ pc = "fallback"
    /\ \E found \in findMatchByKeywords(kb, limit) :
         relevantQAs' = fallbackAsCandidates(found)
    /\ pc' = "decide"
    /\ UNCHANGED << extVars, simVars, scoringError, mgmtVars, message, response, returned, sent, ai, aiCalls,
                    openAIFailed, exactMatches, kbError, persistError >>

\* findRelevantQAPairs: the fallback lookup throws too.
FallbackLookupThrows ==
    /\ pc = "fallback"
    /\ relevantQAs' = <<>>
    /\ pc' = "decide"
    /\ UNCHANGED << extVars, simVars, scoringError, mgmtVars, message, response, returned, sent, ai, aiCalls,
                    openAIFailed, exactMatches, kbError, persistError >>

\* generateResponse: the threshold decision.
ThresholdDecision ==
    /\ pc = "decide"
    /\ IF highSimilarityMatch(relevantQAs)
       THEN /\ response' = relevantQAs[1].answer
            /\ pc' = "save"
       ELSE /\ response' = response
            /\ pc' = "ai"
    /\ UNCHANGED << extVars, simVars, scoringError, mgmtVars, message, relevantQAs, returned, sent, ai, aiCalls,
                    openAIFailed, exactMatches, kbError, persistError >>

\* Slip: a first rejection sends the pass back to the call.
aiSettles_retry(r) ==
    /\ ai' = r
    /\ IF r.threw /\ aiCalls = 0
       THEN /\ response' = response
            /\ pc' = "ai"
       ELSE /\ response' = respondWithAI(relevantQAs, r, message, language)
            /\ pc' = "save"

\* generateAIResponse settles with r: the rest of the try/catch runs.
aiSettles(r) ==
    /\ ai' = r
    /\ response' = respondWithAI(relevantQAs, r, message, language)
    /\ pc' = "save"

\* generateAIResponse: construct the generator, then detectBookingRequest.
AIStart ==
    /\ pc = "ai"
    /\ aiCalls' = aiCalls + 1
    /\ \E ctor \in {"ok", "throws"}, detect \in {"no", "yes", "throws"} :
         IF ctor = "throws" THEN aiSettles(aiRejected)
         ELSE IF detect = "throws" THEN aiSettles(aiResolved(aiErrorResponse(language)))
         ELSE /\ pc' = IF detect = "yes" THEN "aiBooking" ELSE "aiCriteria"
              /\ UNCHANGED << ai, response >>
    /\ UNCHANGED << extVars, simVars, scoringError, mgmtVars, message, relevantQAs, returned, sent, openAIFailed,
                    exactMatches, kbError, persistError >>

\* AIResponseGenerator.generateResponse, step 1: createAppointment.
AIBooking ==
    /\ pc = "aiBooking"
    /\ \E outcome \in {"created", "failed", "throws"} :
         IF outcome = "created" THEN aiSettles(aiResolved(appointmentConfirmation(language)))
         ELSE IF outcome = "failed" THEN aiSettles(aiResolved(appointmentError(language)))
         ELSE /\ pc' = "aiCriteria"
              /\ UNCHANGED << ai, response >>
    /\ UNCHANGED << extVars, simVars, scoringError, mgmtVars, message, relevantQAs, returned, sent, aiCalls,
                    openAIFailed, exactMatches, kbError, persistError >>

\* Step 2: extractSearchCriteria, then the enhanced and the basic search.
AISearch ==
    /\ pc = "aiCriteria"
    /\ \E outcome \in {"none", "criteria throws", "enhanced", "basic", "throws"} :
         IF outcome = "criteria throws" THEN aiSettles(aiResolved(aiErrorResponse(language)))
         ELSE IF outcome = "enhanced" THEN aiSettles(aiResolved(enhancedSearchSummary(language)))
         ELSE IF outcome = "basic" THEN aiSettles(aiResolved(basicSearchResponse(language)))
         ELSE /\ pc' = "aiOpenAI"
              /\ UNCHANGED << ai, response >>
    /\ UNCHANGED << extVars, simVars, scoringError, mgmtVars, message, relevantQAs, returned, sent, aiCalls,
                    openAIFailed, exactMatches, kbError, persistError >>


\* Slip: a failure of the OpenAI call is not caught and rejects the generator.
AIOpenAI_propagates ==
    /\ pc = "aiOpenAI"
    /\ \E outcome \in {"unconfigured", "error", "empty", "content"} :
         LET r == OpenAIService_generateResponse(outcome, language) IN
         IF OpenAIService_isConfigured(outcome) /\ ~r.threw
         THEN /\ aiSettles(aiResolved(openAIResponse(r.text)))
              /\ UNCHANGED openAIFailed
         ELSE IF OpenAIService_isConfigured(outcome)
              THEN /\ openAIFailed' = TRUE
                   /\ aiSettles(aiRejected)
              ELSE /\ openAIFailed' = FALSE
                   /\ pc' = "aiRules"
                   /\ UNCHANGED << ai, response >>
    /\ UNCHANGED << extVars, simVars, scoringError, mgmtVars, message, relevantQAs, returned, sent, aiCalls,
                    exactMatches, kbError, persistError >>

\* Step 3: OpenAI when configured; a throw falls through to the rules.
AIOpenAI ==
    /\ pc = "aiOpenAI"
    /\ \E outcome \in {"unconfigured", "error", "empty", "content"} :
         LET r == OpenAIService_generateResponse(outcome, language) IN
         IF OpenAIService_isConfigured(outcome) /\ ~r.threw
         THEN /\ aiSettles(aiResolved(openAIResponse(r.text)))
              /\ UNCHANGED openAIFailed
         ELSE /\ openAIFailed' = OpenAIService_isConfigured(outcome)
              /\ pc' = "aiRules"
              /\ UNCHANGED << ai, response >>
    /\ UNCHANGED << extVars, simVars, scoringError, mgmtVars, message, relevantQAs, returned, sent, aiCalls,
                    exactMatches, kbError, persistError >>

\* Steps 4 and 5: rule-based response, else the generator's default.
AIRules ==
    /\ pc = "aiRules"
    /\ \E outcome \in {"match", "none", "throws"} :
         IF outcome = "throws" THEN aiSettles(aiResolved(aiErrorResponse(language)))
         ELSE IF outcome = "match" THEN aiSettles(aiResolved(ruleBasedResponse(language)))
         ELSE aiSettles(aiResolved(generateDefaultResponse(language)))
    /\ UNCHANGED << extVars, simVars, scoringError, mgmtVars, message, relevantQAs, returned, sent, aiCalls,
                    openAIFailed, exactMatches, kbError, persistError >>

\* saveMessage(response), updateClientActivity, return response.
SaveAndReturn ==
    /\ pc = "save"
    /\ returned' = response
    /\ pc' = "done"
    /\ UNCHANGED << extVars, simVars, scoringError, mgmtVars, message, relevantQAs, response, sent, ai, aiCalls,
                    openAIFailed, exactMatches, kbError, persistError >>


\* Slip: the catch of generateResponse returns the text of the error.
SaveThrows_rawError ==
    /\ pc = "save"
    /\ persistError' = TRUE
    /\ returned' = << "Error: connect ECONNREFUSED" >>
    /\ pc' = "done"
    /\ UNCHANGED << extVars, simVars, scoringError, mgmtVars, message, relevantQAs, response, sent, ai, aiCalls,
                    openAIFailed, exactMatches, kbError >>

\* Saving the reply throws: the outer catch answers.
SaveThrows ==
    /\ pc = "save"
    /\ persistError' = TRUE
    /\ returned' = ErrorNotice
    /\ pc' = "done"
    /\ UNCHANGED << extVars, simVars, scoringError, mgmtVars, message, relevantQAs, response, sent, ai, aiCalls,
                    openAIFailed, exactMatches, kbError >>

\* Step 3, the request is sent and no answer ever comes: the fetch of
\* OpenAIService.generateResponse carries no signal and no timer, and neither
\* generateAIResponse nor generateResponse races the await against one.
AIOpenAIHangs ==
    /\ pc = "aiOpenAI"
    /\ pc' = "aiPending"
    /\ UNCHANGED << extVars, simVars, scoringError, mgmtVars, message, relevantQAs, response,
                    returned, sent, ai, aiCalls, openAIFailed, exactMatches,
                    kbError, persistError >>

\* ----------------------------------------------------------- specifications
Manage == CreateQAPair \/ UpdateQAPair \/ DeleteQAPair

FindRelevantQAPairs ==
    \/ FindExactMatch \/ FindExactMatchThrows
    \/ ScoreAllCandidates \/ ScoreAllCandidatesThrows
    \/ FallbackLookup \/ FallbackLookupThrows

GenerateAI == AIStart \/ AIBooking \/ AISearch \/ AIOpenAI \/ AIRules

\* The routing pass with working persistence.
Next ==
    \/ Manage
    \/ Receive \/ PersistIncoming
    \/ FindRelevantQAPairs
    \/ ThresholdDecision
    \/ GenerateAI
    \/ SaveAndReturn \/ SendReply

Spec == Init /\ [][Next]_vars

\* The routing pass when persistence and the message handler can throw too.
NextFaulty ==
    \/ Next
    \/ ReceiveThrows \/ PersistIncomingThrows \/ SaveThrows

SpecFaulty == Init /\ [][NextFaulty]_vars

\* The steps of the pass itself: the event loop runs every continuation that
\* is ready, so the pass is never left waiting while one of them is enabled.
Pass ==
    \/ Receive \/ PersistIncoming
    \/ FindRelevantQAPairs
    \/ ThresholdDecision
    \/ GenerateAI
    \/ SaveAndReturn \/ SendReply

\* The routing pass when the OpenAI endpoint may stay silent.
NextLive == Next \/ AIOpenAIHangs

SpecLive == Init /\ [][NextLive]_vars /\ WF_vars(Pass)

\* ------------------------------------- findRelevantQAPairs on a given table
\* The question of the table that equals the message after normalisation,
\* and one that does not.
exactQuestion(msg) ==
    CHOOSE q \in {Trim(r) : r \in RawQuestions} : Normalize(q) = Normalize(msg)
otherQuestion == << "H", "i", "?" >>

\* The rows the tables are made of: questions equal to the message or not,
\* both priorities, active and inactive rows, contextual scores at the floor
\* (20.00), just above it and in the bands of the router, equal scores with
\* equal and with different priorities, and a row on which scoring throws.
RowKinds == <<
    [exact |-> FALSE, priority |-> 0, isActive |-> TRUE,  ctxSim |-> 5000, malformed |-> FALSE],
    [exact |-> FALSE, priority |-> 1, isActive |-> TRUE,  ctxSim |-> 5000, malformed |-> FALSE],
    [exact |-> FALSE, priority |-> 0, isActive |-> TRUE,  ctxSim |-> 8999, malformed |-> FALSE],
    [exact |-> FALSE, priority |-> 0, isActive |-> TRUE,  ctxSim |-> 2000, malformed |-> FALSE],
    [exact |-> FALSE, priority |-> 1, isActive |-> FALSE, ctxSim |-> 9000, malformed |-> FALSE],
    [exact |-> TRUE,  priority |-> 0, isActive |-> TRUE,  ctxSim |-> 10000, malformed |-> FALSE],
    [exact |-> FALSE, priority |-> 1, isActive |-> TRUE,  ctxSim |-> 8999, malformed |-> FALSE],
    [exact |-> FALSE, priority |-> 0, isActive |-> TRUE,  ctxSim |-> 5000, malformed |-> FALSE],
    [exact |-> TRUE,  priority |-> 1, isActive |-> TRUE,  ctxSim |-> 10000, malformed |-> FALSE],
    [exact |-> FALSE, priority |-> 0, isActive |-> TRUE,  ctxSim |-> 2001, malformed |-> FALSE],
    [exact |-> TRUE,  priority |-> 1, isActive |-> FALSE, ctxSim |-> 10000, malformed |-> FALSE],
    [exact |-> FALSE, priority |-> 0, isActive |-> TRUE,  ctxSim |-> 9000, malformed |-> TRUE],
    [exact |-> FALSE, priority |-> 1, isActive |-> TRUE,  ctxSim |-> 9000, malformed |-> FALSE] >>

\* Row id of the table a message is looked up in.
rowOf(msg, id) ==
    LET k == RowKinds[((id - 1) % Len(RowKinds)) + 1]
    IN  [id |-> id,
         question |-> IF k.exact THEN exactQuestion(msg) ELSE otherQuestion,
         answer |-> << "a", ToString(id) >>,
         priority |-> k.priority, isActive |-> k.isActive,
         ctxSim |-> k.ctxSim, malformed |-> k.malformed]

\* findRelevantQAPairs(message) is called on any table made of these rows.
InitRank ==
    /\ message \in Messages
    /\ kb \in SUBSET { rowOf(message, id) : id \in 1..MaxRows }
    /\ nextId = MaxRows + 1
    /\ mgmtOps = 0
    /\ pc = "exact"
    /\ relevantQAs = <<>>
    /\ response = <<>>
    /\ returned = <<>>
    /\ sent = <<>>
    /\ ai = aiNotCalled
    /\ aiCalls = 0
    /\ openAIFailed = FALSE
    /\ exactMatches = <<>>
    /\ kbError = FALSE
    /\ persistError = FALSE
    /\ snaps = {kb}
    /\ scoringError = FALSE
    /\ simInput = noCall
    /\ simOutput = noResult
    /\ hookIdle /\ dbEmpty /\ smIdle /\ procs = << >>

NextRank == FindRelevantQAPairs \/ ScoreOneThrows

SpecRank == InitRank /\ [][NextRank]_vars

\* ------------------------------------------ the similarity functions alone
\* The words the texts are made of: an Arabic letter (no word character of
\* the keyword pattern) and two keywords that share their letters.
Words == { <<"U0645">>, <<"h", "i", "h">>, <<"i", "h", "i">> }

\* The texts of at most n words, one space between two words.
RECURSIVE textsOf(_)
textsOf(n) ==
    IF n = 0 THEN { <<>> }
    ELSE LET shorter == textsOf(n - 1)
         IN  shorter \cup Words
                     \cup { t \o <<" ">> \o w : t \in shorter \ {<<>>}, w \in Words }

\* A text typed in capitals.
inCapitals(t) ==
    [i \in 1..Len(t) |-> IF t[i] = "h" THEN "H" ELSE IF t[i] = "i" THEN "I" ELSE t[i]]

\* Questions as the table holds them, and messages as users type them: the
\* same texts, also in capitals, with and without white space around them.
SimQuestions == textsOf(MaxWords)
SimMessages ==
    { lead \o t \o trail : t \in SimQuestions \cup { inCapitals(q) : q \in SimQuestions },
                           lead \in { <<>>, <<" ">> }, trail \in { <<>>, <<" ">> } }

\* Answer and tags of the entry in a call of calculateContextualSimilarity.
SimContexts ==
    { [qaAnswer |-> <<>>, qaTags |-> <<>>],
      [qaAnswer |-> <<"h", "i", "h">>, qaTags |-> << <<"h", "i">> >>],
      [qaAnswer |-> <<"U0645", " ", "h", "i", "h">>,
       qaTags |-> << <<"H", "I">>, <<"h", "i", "h">>, <<"i", "h", "i">>, <<"U0645">> >>],
      [qaAnswer |-> <<>>,
       qaTags |-> << <<"h">>, <<"I">>, <<"h", "i">>, <<"I", "H">>, <<"U0645">> >>] }

SimCalls ==
    { [fn |-> "calculateSimilarity", userMessage |-> a, qaQuestion |-> b,
       qaAnswer |-> <<>>, qaTags |-> <<>>] : a \in SimMessages, b \in SimQuestions }
    \cup
    { [fn |-> "calculateContextualSimilarity", userMessage |-> a, qaQuestion |-> b,
       qaAnswer |-> c.qaAnswer, qaTags |-> c.qaTags] :
         a \in SimMessages, b \in SimQuestions, c \in SimContexts }

\* One of the two functions is called on texts.
InitSim ==
    /\ simInput \in SimCalls
    /\ simOutput = noResult
    /\ hookIdle /\ dbEmpty /\ smIdle /\ procs = << >>
    /\ pc = "simCall"
    /\ message = simInput.userMessage
    /\ kb = {}
    /\ nextId = 1
    /\ mgmtOps = 0
    /\ relevantQAs = <<>>
    /\ response = <<>>
    /\ returned = <<>>
    /\ sent = <<>>
    /\ ai = aiNotCalled
    /\ aiCalls = 0
    /\ openAIFailed = FALSE
    /\ exactMatches = <<>>
    /\ kbError = FALSE
    /\ persistError = FALSE
    /\ snaps = {}
    /\ scoringError = FALSE

CalculateSimilarity ==
    /\ pc = "simCall"
    /\ simInput.fn = "calculateSimilarity"
    /\ simOutput' = [threw |-> FALSE,
                     value |-> calculateSimilarity(simInput.userMessage, simInput.qaQuestion)]
    /\ pc' = "simReturned"
    /\ UNCHANGED << extVars, simInput, scoringError, mgmtVars, message, relevantQAs, response,
                    returned, sent, ai, aiCalls, openAIFailed, exactMatches,
                    kbError, persistError >>

CalculateContextualSimilarity ==
    /\ pc = "simCall"
    /\ simInput.fn = "calculateContextualSimilarity"
    /\ simOutput' = [threw |-> FALSE,
                     value |-> contextualSimilarity(simInput.userMessage, simInput.qaQuestion,
                                                    simInput.qaAnswer, simInput.qaTags)]
    /\ pc' = "simReturned"
    /\ UNCHANGED << extVars, simInput, scoringError, mgmtVars, message, relevantQAs, response,
                    returned, sent, ai, aiCalls, openAIFailed, exactMatches,
                    kbError, persistError >>

NextSim == CalculateSimilarity \/ CalculateContextualSimilarity

SpecSim == InitSim /\ [][NextSim]_vars


\* ------------------------------------------- the webhook and the tracking
\* The response-routing pass is not running.
coreVars == << mgmtVars, passVars >>
coreOff ==
    /\ kb = {}
    /\ nextId = 1
    /\ mgmtOps = 0
    /\ message = << >>
    /\ pc = "off"
    /\ relevantQAs = << >>
    /\ response = << >>
    /\ returned = << >>
    /\ sent = << >>
    /\ ai = aiNotCalled
    /\ aiCalls = 0
    /\ openAIFailed = FALSE
    /\ exactMatches = << >>
    /\ kbError = FALSE
    /\ persistError = FALSE
    /\ snaps = {}
    /\ scoringError = FALSE
    /\ simInput = noCall
    /\ simOutput = noResult

\* WhatsApp message ids: "wamid." and the base64 of a header, the recipient's
\* number, a second header and a per-message tail.  Recipients "B" and "C"
\* are two numbers with the same leading digits.
wamidLead == << "w", "a", "m", "i", "d", ".", "H", "B", "g", "L" >>
phoneCode(phone) ==
    IF phone = "A"
    THEN << "M", "T", "Y", "1", "M", "D", "U", "w", "N", "z", "Y", "1", "M", "j", "A", "V" >>
    ELSE IF phone = "B"
    THEN << "O", "T", "Y", "2", "N", "T", "A", "x", "M", "j", "M", "0", "N", "T", "Y", "3" >>
    ELSE << "O", "T", "Y", "2", "N", "T", "A", "x", "M", "j", "M", "0", "O", "T", "k", "5" >>
wamidMid == << "A", "g", "A", "R", "G", "B", "I", "5" >>
wamid(phone, n) == wamidLead \o phoneCode(phone) \o wamidMid \o << ToString(n), "=" >>

\* A nullable column that holds nothing; a falsy internal message id.
null == << >>
noInternalId == 0

\* String.prototype.slice(-n) and substring(0, n).
sliceFromEnd(str, n) == IF Len(str) <= n THEN str ELSE SubSeq(str, Len(str) - n + 1, Len(str))
substring(str, n) == SubSeq(str, 1, Min(n, Len(str)))

\* A row of the Message table as the tracking code reads and writes it (the
\* wall-clock columns lastStatusUpdate and sentAt are left out; `recent` says
\* sentAt lies in the last five minutes).
messageRow(id, wid, phone, status) ==
    [id |-> id, whatsappMessageId |-> wid, phone |-> phone, isBot |-> TRUE,
     status |-> status, deliveredAt |-> 0, readAt |-> 0, failedAt |-> 0,
     errorDetails |-> "", recent |-> TRUE]

\* MessageTrackingService.trackSentMessage: the update of the record; the
\* function swallows the error when the update throws.
trackSentMessage(table, whatsappMessageId, internalMessageId, updateOk) ==
    IF updateOk
    THEN { IF m.id = internalMessageId
           THEN [m EXCEPT !.whatsappMessageId = whatsappMessageId, !.status = "sent"]
           ELSE m : m \in table }
    ELSE table

\* What callWhatsAppAPI can do: return the id, throw on a response that is
\* not ok, throw on an ok response without id, and never be reached because
\* getWhatsAppConfig throws.
ApiOutcomes == {"ok", "notOk", "noId", "configThrows"}

\* sendWhatsAppMessage(to, text, internalMessageId, ..., responseSource) for
\* the call'th message of the request: never throws.
sendWhatsAppMessage(call, to, text, internalMessageId, responseSource, outcome, updateOk) ==
    LET messageId == IF outcome = "ok" THEN wamid(to, Len(sends) + 1) ELSE null
        tracks == internalMessageId # noInternalId /\ messageId # null
    IN  /\ sends' = Append(sends, [call |-> call, to |-> to, text |-> text,
                                   internalMessageId |-> internalMessageId,
                                   responseSource |-> responseSource,
                                   accepted |-> outcome \in {"ok", "noId"},
                                   success |-> outcome = "ok",
                                   messageId |-> messageId])
        /\ tracked' = IF tracks
                      THEN Append(tracked, [whatsappMessageId |-> messageId,
                                            internalMessageId |-> internalMessageId])
                      ELSE tracked
        /\ msgTable' = IF tracks
                       THEN trackSentMessage(msgTable, messageId, internalMessageId, updateOk)
                       ELSE msgTable

\* updateMessageStatus: the four lookups.
foundForStatus(table, status) ==
    \/ \E m \in table : m.whatsappMessageId = status.id
    \/ \E m \in table : endsWith(m.whatsappMessageId, sliceFromEnd(status.id, idSuffixLength))
    \/ \E m \in table : startsWith(m.whatsappMessageId, substring(status.id, idPrefixLength))
    \/ \E m \in table : /\ m.phone = status.recipient_id
                        /\ m.isBot
                        /\ m.whatsappMessageId # null
                        /\ m.recent

\* updateMessageStatus: updateData applied to one row.
withStatus(m, status) ==
    [m EXCEPT !.status = status.status,
              !.deliveredAt = IF status.status = "delivered" THEN status.timestamp ELSE @,
              !.readAt = IF status.status = "read" THEN status.timestamp ELSE @,
              !.failedAt = IF status.status = "failed" THEN status.timestamp ELSE @,
              !.errorDetails = IF status.status = "failed" /\ status.errors
                               THEN "errors" ELSE @]

\* updateMessageStatus: the where clause of updateMany.
statusMatches(m, status) ==
    \/ m.whatsappMessageId = status.id
    \/ includes(m.whatsappMessageId, substring(status.id, idContainsLength))

\* updateMessageStatus(status) on the two tables; every error is swallowed.
updateMessageStatus(table, clients, status, dbOk) ==
    IF ~dbOk THEN table
    ELSE IF ~foundForStatus(table, status)
    THEN IF \E c \in clients : c.phone = status.recipient_id
         THEN table \cup { messageRow(1 + Cardinality(table), status.id,
                                      status.recipient_id, status.status) }
         ELSE table
    ELSE { IF statusMatches(m, status) THEN withStatus(m, status) ELSE m : m \in table }

\* The webhook requests: a body one of the two validators rejects, or a list
\* of messages, or a list of statuses.  An element can be null.
nullItem == [type |-> "null"]
MessageItems ==
    { [type |-> t, from |-> "A"] : t \in {"text", "textNoBody", "image"} } \cup {nullItem}
StatusItems ==
    { [type |-> "status", id |-> wamid(w[1], w[2]), status |-> st, recipient_id |-> w[1],
       timestamp |-> 1, errors |-> (st = "failed")] :
        w \in { <<"A", 7>>, <<"A", 8>>, <<"B", 7>>, <<"C", 7>> },
        st \in {"sent", "delivered", "read", "failed"} } \cup {nullItem}

RECURSIVE listsOf(_, _)
listsOf(S, n) ==
    IF n = 0 THEN { << >> }
    ELSE LET shorter == listsOf(S, n - 1)
         IN  shorter \cup { Append(l, x) : l \in { k \in shorter : Len(k) = n - 1 }, x \in S }

Requests ==
    { [kind |-> k, items |-> << >>] : k \in {"invalidStructure", "invalidData"} }
    \cup { [kind |-> "messages", items |-> l] : l \in listsOf(MessageItems, MaxItems) }
    \cup { [kind |-> "statuses", items |-> l] : l \in listsOf(StatusItems, MaxItems) \ { << >> } }

\* What generateResponse resolves to (it catches everything it throws).
Replies == { << "a", "1" >>, ErrorNotice }

\* The tables the requests are served on: bot messages sent earlier to "A"
\* and "B", all still 'sent'; "C" is no client.
TrackedRows ==
    { messageRow(1, wamid("A", 7), "A", "sent"),
      messageRow(2, wamid("A", 8), "A", "sent"),
      messageRow(3, wamid("B", 7), "B", "sent") }
KnownClients == { [id |-> 1, phone |-> "A"], [id |-> 2, phone |-> "B"] }

InitHook ==
    /\ coreOff
    /\ hookPc = "idle"
    /\ request = noRequest
    /\ item = 0
    /\ httpStatus = 0
    /\ reply = << >>
    /\ escaped = FALSE
    /\ sends = << >>
    /\ tracked = << >>
    /\ msgTable \in SUBSET TrackedRows
    /\ clientTable = KnownClients
    /\ smIdle
    /\ procs = << >>

hookRest == << coreVars, smVars, procs, clientTable >>
current == request.items[item]
atItem == hookPc = "loop" /\ item <= Len(request.items)

\* router.post('/'): a request arrives.
HookReceive ==
    /\ hookPc = "idle"
    /\ request' \in Requests
    /\ item' = 1
    /\ hookPc' = "validate"
    /\ UNCHANGED << hookRest, httpStatus, reply, escaped, sends, tracked, msgTable >>

\* isValidWebhookStructure / isValidMessageData: whether a list with a null
\* element passes is not decided by the code at hand.
HookValidate ==
    /\ hookPc = "validate"
    /\ \E passes \in IF request.kind \in {"invalidStructure", "invalidData"} THEN {FALSE}
                     ELSE IF \E i \in 1..Len(request.items) : request.items[i] = nullItem
                     THEN BOOLEAN ELSE {TRUE} :
         IF passes
         THEN /\ hookPc' = "loop"
              /\ UNCHANGED httpStatus
         ELSE /\ hookPc' = "responded"
              /\ httpStatus' = 400
    /\ UNCHANGED << hookRest, request, item, reply, escaped, sends, tracked, msgTable >>

\* The else branch of the messages loop: a message that is no text.
HookSkipNonText ==
    /\ atItem /\ request.kind = "messages" /\ current.type = "image"
    /\ item' = item + 1
    /\ UNCHANGED << hookRest, hookPc, request, httpStatus, reply, escaped, sends, tracked,
                    msgTable >>

\* processTextMessage is called: from, text, getSenderName, markAsRead.
\* text.substring throws when the text object has no body.
PTMRead ==
    /\ atItem /\ request.kind = "messages" /\ current.type \in {"text", "textNoBody"}
    /\ hookPc' = IF current.type = "text" THEN "ptmGenerate" ELSE "ptmCatch"
    /\ UNCHANGED << hookRest, request, item, httpStatus, reply, escaped, sends, tracked,
                    msgTable >>

\* const response = await generateResponse(text, from, senderName).
PTMGenerate ==
    /\ hookPc = "ptmGenerate"
    /\ reply' \in Replies
    /\ hookPc' = "ptmSend"
    /\ UNCHANGED << hookRest, request, item, httpStatus, escaped, sends, tracked, msgTable >>

\* const internalMessageId = ''.
replyInternalId == noInternalId

\* The reply is sent and the result logged; processTextMessage resolves.
PTMSend ==
    /\ hookPc = "ptmSend"
    /\ \E outcome \in ApiOutcomes, updateOk \in BOOLEAN :
         sendWhatsAppMessage(item, current.from, reply, replyInternalId,
                             "Intelligent System", outcome, updateOk)
    /\ item' = item + 1
    /\ hookPc' = "loop"
    /\ UNCHANGED << hookRest, request, httpStatus, reply, escaped >>

\* Slip: the catch block throws the error on.
PTMCatch_rethrows ==
    /\ hookPc = "ptmCatch"
    /\ escaped' = TRUE
    /\ hookPc' = "escaped"
    /\ UNCHANGED << hookRest, request, item, httpStatus, reply, sends, tracked, msgTable >>

\* The catch block: the error is logged and the fixed notice is sent once;
\* processTextMessage resolves.
PTMCatch ==
    /\ hookPc = "ptmCatch"
    /\ \E outcome \in ApiOutcomes :
         sendWhatsAppMessage(item, current.from, ErrorNotice, noInternalId,
                             "Error Fallback", outcome, TRUE)
    /\ item' = item + 1
    /\ hookPc' = "loop"
    /\ UNCHANGED << hookRest, request, httpStatus, reply, escaped >>

\* One status of the statuses loop: updateMessageStatus and the logging,
\* inside the handler's inner try.
HookStatus ==
    /\ atItem /\ request.kind = "statuses" /\ current # nullItem
    /\ \E dbOk \in BOOLEAN :
         msgTable' = updateMessageStatus(msgTable, clientTable, current, dbOk)
    /\ item' = item + 1
    /\ UNCHANGED << hookRest, hookPc, request, httpStatus, reply, escaped, sends, tracked >>

\* The handler's own catch: reading a null element throws (message.type,
\* status.status), as would an error that left processTextMessage.
HookCatch ==
    /\ \/ atItem /\ current = nullItem
       \/ hookPc = "escaped"
    /\ httpStatus' = 500
    /\ hookPc' = "responded"
    /\ UNCHANGED << hookRest, request, item, reply, escaped, sends, tracked, msgTable >>

\* The loops are over: res.status(200).
HookRespond ==
    /\ hookPc = "loop" /\ item > Len(request.items)
    /\ httpStatus' = 200
    /\ hookPc' = "responded"
    /\ UNCHANGED << hookRest, request, item, reply, escaped, sends, tracked, msgTable >>

ProcessTextMessage == PTMRead \/ PTMGenerate \/ PTMSend \/ PTMCatch

NextHook ==
    \/ HookReceive
    \/ HookValidate
    \/ HookSkipNonText
    \/ ProcessTextMessage
    \/ HookStatus
    \/ HookCatch
    \/ HookRespond

SpecHook == InitHook /\ [][NextHook]_vars


\* ------------------------------------ EnhancedWhatsAppService.sendMessage
\* getOrCreateClientId run alone: the table afterwards and the id returned.
clientOf(clients, phone) == CHOOSE c \in clients : c.phone = phone
clientsAfterGetOrCreate(clients, phone) ==
    IF \E c \in clients : c.phone = phone THEN clients
    ELSE clients \cup { [id |-> 1 + Cardinality(clients), phone |-> phone] }

\* The calls made: one text to "A", with the number of attempts the caller
\* asks for (3 when it asks for none).
SendCalls ==
    { [to |-> "A", text |-> << "a", "1" >>, retryAttempts |-> n, recordId |-> noInternalId,
       attempt |-> 0, lastError |-> "", sent |-> null,
       result |-> [success |-> FALSE, messageId |-> null, error |-> "none"]] :
        n \in 1..retryAttempts }

InitSend ==
    /\ coreOff
    /\ hookIdle
    /\ sends = << >>
    /\ tracked = << >>
    /\ msgTable = {}
    /\ clientTable \in { {}, KnownClients }
    /\ smPc = "start"
    /\ smCall \in SendCalls
    /\ procs = << >>

smRest == << coreVars, hookVars, procs >>
smRecord == CHOOSE m \in msgTable : m.id = smCall.recordId
smReturns(success, messageId, error) ==
    [smCall EXCEPT !.result = [success |-> success, messageId |-> messageId, error |-> error]]

\* The record is created 'pending' for the client found or created; an error
\* of either step goes to the outer catch, which returns failure.
SMCreateRecord ==
    /\ smPc = "start"
    /\ \E outcome \in {"ok", "clientThrows", "createThrows"} :
         IF outcome = "ok"
         THEN /\ clientTable' = clientsAfterGetOrCreate(clientTable, smCall.to)
              /\ msgTable' = msgTable \cup
                     { messageRow(1 + Cardinality(msgTable), null, smCall.to, "pending") }
              /\ smCall' = [smCall EXCEPT !.recordId = 1 + Cardinality(msgTable),
                                          !.attempt = 1]
              /\ smPc' = "attempt"
         ELSE /\ clientTable' = IF outcome = "createThrows"
                                THEN clientsAfterGetOrCreate(clientTable, smCall.to)
                                ELSE clientTable
              /\ msgTable' = msgTable
              /\ smCall' = smReturns(FALSE, null, outcome)
              /\ smPc' = "returned"
    /\ UNCHANGED << smRest, sends, tracked >>

\* One attempt of the loop: sendWhatsAppMessage with the record's id, which
\* tracks the message when the API returned an id.
SMAttempt ==
    /\ smPc = "attempt" /\ smCall.attempt <= smCall.retryAttempts
    /\ \E outcome \in ApiOutcomes, updateOk \in BOOLEAN :
         /\ sendWhatsAppMessage(smCall.attempt, smCall.to, smCall.text, smCall.recordId,
                                "Enhanced WhatsApp Service", outcome, updateOk)
         /\ IF outcome = "ok"
            THEN /\ smCall' = [smCall EXCEPT !.sent = wamid(smCall.to, Len(sends) + 1)]
                 /\ smPc' = "recordSent"
            ELSE /\ smCall' = [smCall EXCEPT !.lastError = outcome,
                                             !.attempt = @ + 1]
                 /\ smPc' = "attempt"
    /\ UNCHANGED << smRest, clientTable >>

\* The attempt succeeded: the record is updated to 'sent' and the call
\* returns success.  When the update throws, the catch inside the loop notes
\* the error, waits, and the loop goes on with the next attempt.
SMRecordSent ==
    /\ smPc = "recordSent"
    /\ \E updateOk \in BOOLEAN :
         IF updateOk
         THEN /\ msgTable' = { IF m.id = smCall.recordId
                               THEN [m EXCEPT !.whatsappMessageId = smCall.sent,
                                              !.status = "sent"]
                               ELSE m : m \in msgTable }
              /\ smCall' = smReturns(TRUE, smCall.sent, "none")
              /\ smPc' = "returned"
         ELSE /\ msgTable' = msgTable
              /\ smCall' = [smCall EXCEPT !.lastError = "updateThrows",
                                          !.attempt = @ + 1]
              /\ smPc' = "attempt"
    /\ UNCHANGED << smRest, sends, tracked, clientTable >>

\* The loop is over without a return: the record is updated to 'failed' with
\* the last error and the call returns failure; when that update throws, the
\* outer catch returns failure.
SMGiveUp ==
    /\ smPc = "attempt" /\ smCall.attempt > smCall.retryAttempts
    /\ \E updateOk \in BOOLEAN :
         IF updateOk
         THEN /\ msgTable' = { IF m.id = smCall.recordId
                               THEN [m EXCEPT !.status = "failed", !.failedAt = 1,
                                              !.errorDetails = smCall.lastError]
                               ELSE m : m \in msgTable }
              /\ smCall' = smReturns(FALSE, null, smCall.lastError)
         ELSE /\ msgTable' = msgTable
              /\ smCall' = smReturns(FALSE, null, "updateThrows")
    /\ smPc' = "returned"
    /\ UNCHANGED << smRest, sends, tracked, clientTable >>

NextSend == SMCreateRecord \/ SMAttempt \/ SMRecordSent \/ SMGiveUp

SpecSend == InitSend /\ [][NextSend]_vars


\* ------------------------------------------- find-or-create of a client
\* Two callers run getOrCreateClientId (EnhancedWhatsAppService) or
\* findOrCreateClient (AppointmentBookingService) at the same time; each
\* await is one step.  Client.phone is unique.
Callers == {1, 2}
ClientCalls ==
    { [fn |-> f, phone |-> ph, pc |-> "find", result |-> "pending", id |-> 0] :
        f \in {"getOrCreateClientId", "findOrCreateClient"}, ph \in {"A", "C"} }

InitClient ==
    /\ coreOff
    /\ hookIdle
    /\ smIdle
    /\ sends = << >>
    /\ tracked = << >>
    /\ msgTable = {}
    /\ clientTable \in { {}, KnownClients }
    /\ procs \in [Callers -> ClientCalls]

clientRest == << coreVars, hookVars, smVars, sends, tracked, msgTable >>
hasClient(phone) == \E c \in clientTable : c.phone = phone

\* The call of caller p, and how it ends.
callOf(p) == procs[p]
clientReturned(p, clients) ==
    [callOf(p) EXCEPT !.pc = "done", !.result = "returned",
                      !.id = clientOf(clients, callOf(p).phone).id]
clientFailed(p) ==
    [callOf(p) EXCEPT !.pc = "done",
                      !.result = IF callOf(p).fn = "getOrCreateClientId"
                                 THEN "threw" ELSE "null"]

\* prisma.client.findUnique({ where: { phone } }); getOrCreateClientId
\* returns the id of the client it found.
ClientFind(p) ==
    /\ callOf(p).pc = "find"
    /\ procs' = [procs EXCEPT ![p] =
         IF ~hasClient(callOf(p).phone) THEN [callOf(p) EXCEPT !.pc = "create"]
         ELSE IF callOf(p).fn = "findOrCreateClient" THEN [callOf(p) EXCEPT !.pc = "update"]
         ELSE clientReturned(p, clientTable)]
    /\ UNCHANGED << clientRest, clientTable >>

\* prisma.client.create: the unique constraint on phone rejects a second row.
\* getOrCreateClientId logs and rethrows; findOrCreateClient logs and
\* returns null.
ClientCreate(p) ==
    /\ callOf(p).pc = "create"
    /\ IF hasClient(callOf(p).phone)
       THEN /\ clientTable' = clientTable
            /\ procs' = [procs EXCEPT ![p] = clientFailed(p)]
       ELSE /\ clientTable' = clientsAfterGetOrCreate(clientTable, callOf(p).phone)
            /\ procs' = [procs EXCEPT ![p] = clientReturned(p, clientTable')]
    /\ UNCHANGED clientRest

\* findOrCreateClient on a client it found: lastMessage and lastActive are
\* updated (columns the model does not hold) and the client is returned.
ClientUpdate(p) ==
    /\ callOf(p).pc = "update"
    /\ procs' = [procs EXCEPT ![p] = clientReturned(p, clientTable)]
    /\ UNCHANGED << clientRest, clientTable >>

NextClient == \E p \in Callers : ClientFind(p) \/ ClientCreate(p) \/ ClientUpdate(p)

SpecClient == InitClient /\ [][NextClient]_vars

\* ================================================================== claims
\* generateResponse has resolved.
resolved == pc \in {"done", "replied"}

\* generateAIResponse was called and resolved with an AIResponse.
aiSucceeded == aiCalls > 0 /\ ~ai.threw

\* generateAIResponse was called and rejected.
aiRejects == aiCalls > 0 /\ ai.threw

\* t begins with p.

\* C1 -- exact-match short circuit: when the exact-match lookup returned at
\* least one row, generateResponse resolves to the answer of one of those
\* rows, verbatim, and the generator is never called, whatever score another
\* row would get.
C1_ExactMatchShortCircuit ==
    (resolved /\ Len(exactMatches) > 0) =>
        /\ aiCalls = 0
        /\ \E i \in 1..Len(exactMatches) : returned = exactMatches[i].answer

\* An exact match answered while another active row scores 100 against the
\* same message.
C1_Witness ==
    /\ resolved /\ Len(exactMatches) > 0
    /\ returned = exactMatches[1].answer
    /\ \E other \in kb :
         /\ other.isActive /\ other.ctxSim = 10000
         /\ Normalize(other.question) # Normalize(message)
         /\ other.answer # returned

\* C2 -- threshold boundary at 90: with a non-empty candidate list whose best
\* similarity is s, the reply is the best candidate's answer without any call
\* of the generator if and only if s >= 90.00; below 90.00 (89.99 included)
\* the generator is called.
C2_ThresholdBoundary ==
    (resolved /\ relevantQAs # <<>>) =>
        /\ (aiCalls = 0 /\ returned = relevantQAs[1].answer)
              <=> (relevantQAs[1].similarity >= 9000)
        /\ (relevantQAs[1].similarity < 9000) => (aiCalls = 1)

\* A best candidate at exactly 90.00 answered from the knowledge base.
C2_Witness ==
    /\ resolved /\ relevantQAs # <<>>
    /\ relevantQAs[1].similarity = 9000
    /\ Len(exactMatches) = 0
    /\ aiCalls = 0 /\ returned = relevantQAs[1].answer /\ returned # <<>>

\* C3 -- hint appended iff in band: when the generator resolves, the reply is
\* the generated text followed by the related-topic suffix that names the
\* best candidate's question exactly when a best candidate exists with
\* 50 <= score < 90; otherwise the reply is the generated text alone.
C3_HintIffInBand ==
    (resolved /\ aiSucceeded) =>
        IF relevantQAs # <<>> /\ relevantQAs[1].similarity >= 5000
                              /\ relevantQAs[1].similarity < 9000
        THEN returned = ai.value.response \o HintPrefix \o relevantQAs[1].question
        ELSE returned = ai.value.response

\* A scored candidate at exactly 50.00 whose question is appended.
C3_Witness ==
    /\ resolved /\ aiSucceeded /\ ~kbError
    /\ relevantQAs # <<>> /\ relevantQAs[1].similarity = 5000
    /\ returned = ai.value.response \o HintPrefix \o relevantQAs[1].question
    /\ returned # ai.value.response

\* C4 -- knowledge fallback after generative failure: when the generator
\* rejects and the candidate list is not empty (the best score then lies
\* strictly between 20 and 90), the reply is the best candidate's answer,
\* verbatim and without hint, and the generator was called once only.
C4_KnowledgeFallback ==
    (resolved /\ aiRejects /\ relevantQAs # <<>>) =>
        /\ returned = relevantQAs[1].answer
        /\ aiCalls = 1
        /\ relevantQAs[1].similarity > 2000 /\ relevantQAs[1].similarity < 9000

\* The generator rejected and the 89.99 candidate answered.
C4_Witness ==
    /\ resolved /\ aiRejects /\ relevantQAs # <<>>
    /\ relevantQAs[1].similarity = 8999
    /\ returned = relevantQAs[1].answer /\ returned # <<>>

\* C5 -- the fallback chain ends in the static default: when the generator
\* rejects and there is no candidate, the reply is the static default of the
\* message's language, which is not empty.
C5_StaticDefault ==
    (resolved /\ aiRejects /\ relevantQAs = <<>>) =>
        /\ returned = getDefaultResponse(message, detectLanguage(message))
        /\ returned # <<>>

\* The generator rejected over an empty table and the default was returned.
C5_Witness ==
    /\ resolved /\ aiRejects /\ relevantQAs = <<>> /\ kb = {}
    /\ returned = getDefaultResponse(message, "ar")

\* The reply generateResponse builds when it does not use the generated text:
\* the best candidate's answer, or the static default without candidates.
knowledgeOrDefault ==
    IF relevantQAs # <<>> THEN relevantQAs[1].answer
    ELSE getDefaultResponse(message, detectLanguage(message))

\* The reply generateResponse builds from the text the generator resolved with.
generatedTextPath ==
    IF relevantQAs # <<>> /\ relevantQAs[1].similarity >= 5000
    THEN ai.value.response \o HintPrefix \o relevantQAs[1].question
    ELSE ai.value.response

\* C6, as the specification states it -- generative failures are uniform:
\* whenever the generative backend fails in any way (the call of OpenAI
\* throwing or returning empty content included) the reply is not built from
\* generated text: it is the best candidate's answer, or the static default.
C6_FailuresUniform ==
    (resolved /\ aiCalls > 0 /\ (ai.threw \/ openAIFailed)) =>
        returned = knowledgeOrDefault

\* C6, amended -- only a rejection of generateAIResponse makes the router
\* fall back to the best candidate's answer or the static default. A failure
\* of the OpenAI call is caught inside the generator, which resolves with its
\* rule-based, default or apology text, and the router takes the
\* generated-text path with it.
C6_RejectionOnly ==
    /\ (resolved /\ aiRejects) => (returned = knowledgeOrDefault /\ ~openAIFailed)
    /\ (resolved /\ aiCalls > 0 /\ openAIFailed) =>
          /\ ~ai.threw
          /\ ai.value.source = "ai_agent"
          /\ ai.value.response # <<>>
          /\ returned = generatedTextPath

\* The OpenAI call failed, the rule-based text was returned with the hint of
\* a candidate.
C6_Witness ==
    /\ resolved /\ openAIFailed /\ ~ai.threw
    /\ ai.value = ruleBasedResponse(detectLanguage(message))
    /\ relevantQAs # <<>>
    /\ returned = ai.value.response \o HintPrefix \o relevantQAs[1].question
    /\ returned # relevantQAs[1].answer

\* A text that reports an error to the end user.
isErrorNotice(t) ==
    \/ t = ErrorNotice
    \/ \E lang \in {"ar", "en"} :
         \/ startsWith(t, aiErrorResponse(lang).response)
         \/ startsWith(t, appointmentError(lang).response)

\* C7, as the specification states it -- the end user never sees an error
\* notice: whatever collaborator fails, the text generateResponse returns and
\* every text sent is a knowledge answer, a generated answer or the static
\* default, never a message that reports an error.
C7_NoErrorNotice ==
    /\ resolved => ~isErrorNotice(returned)
    /\ \A i \in 1..Len(sent) : ~isErrorNotice(sent[i])

\* C7, amended -- the text returned is a knowledge answer, a generated answer
\* or the static default unless a persistence call throws; then, and only
\* then, it is the fixed notice "Sorry, there was an error processing your
\* message. Please try again later.". The generated answer may itself be one
\* of the generator's fixed apologies. Every text sent is the text returned,
\* or that same fixed notice when processTextMessage fails before the reply.
C7_FixedNoticeOnly ==
    /\ (resolved /\ persistError) => returned = ErrorNotice
    /\ (resolved /\ ~persistError) =>
          /\ returned # ErrorNotice
          /\ \/ aiCalls = 0 /\ relevantQAs # <<>> /\ returned = relevantQAs[1].answer
             \/ aiSucceeded /\ returned = generatedTextPath
             \/ aiRejects /\ returned = knowledgeOrDefault
    /\ \A i \in 1..Len(sent) : sent[i] = returned \/ sent[i] = ErrorNotice

\* A persistence call threw after a knowledge answer had been chosen, and the
\* fixed notice was sent.
C7_Witness ==
    /\ pc = "replied" /\ persistError
    /\ relevantQAs # <<>> /\ relevantQAs[1].similarity >= 9000
    /\ returned = ErrorNotice
    /\ sent = << ErrorNotice >>

\* C8, as the specification states it -- an unreachable knowledge base means
\* zero candidates: when reading or scoring the table fails, the router
\* behaves as with an empty candidate list and goes to the generative
\* fallback; no hint is appended.
C8_NoCandidates ==
    (resolved /\ kbError) =>
        /\ relevantQAs = <<>>
        /\ aiCalls = 1
        /\ aiSucceeded => returned = ai.value.response

\* C8, amended -- when reading or scoring the table fails, findRelevantQAPairs
\* runs the keyword lookup: every row it finds becomes a candidate with
\* similarity 50, the generator is called once, and on its success the reply
\* carries the hint of the first row found. Only when the lookup finds
\* nothing or fails too is the reply the one of an empty candidate list.
C8_KeywordFallback ==
    (resolved /\ kbError) =>
        /\ \A i \in 1..Len(relevantQAs) : relevantQAs[i].similarity = 5000
        /\ aiCalls = 1
        /\ aiSucceeded =>
              returned = IF relevantQAs = <<>> THEN ai.value.response
                         ELSE ai.value.response \o HintPrefix \o relevantQAs[1].question
        /\ aiRejects => returned = knowledgeOrDefault

\* The table read failed, the keyword lookup found a row and its question
\* was appended to the generated text.
C8_Witness ==
    /\ resolved /\ kbError /\ aiSucceeded
    /\ relevantQAs # <<>> /\ relevantQAs[1].similarity = 5000
    /\ returned = ai.value.response \o HintPrefix \o relevantQAs[1].question

\* C9 -- the response text is never empty: for every message, every content
\* of the knowledge base and every outcome of the generator, the text
\* generateResponse returns is not empty.
C9_NeverEmpty == resolved => returned # <<>>

\* The candidate list the router would build from one content of the table.
candidatesOn(s) ==
    LET em == findExactMatch(s, message)
    IN  IF Len(em) > 0 THEN exactAsCandidates(em)
        ELSE scoreAndRank(findManyActive(s), message)

\* The outcome of the pass is the one the router reaches on table content s.
decidedOn(s) ==
    LET c == candidatesOn(s)
    IN  IF highSimilarityMatch(c)
        THEN aiCalls = 0 /\ returned = c[1].answer
        ELSE aiCalls = 1 /\ returned = respondWithAI(c, ai, message, detectLanguage(message))

\* C10 -- single snapshot per routing pass: while management requests are
\* served during a pass, the exact-match lookup and the scoring read see the
\* same content of the table, so the reply is the one the router reaches on
\* one single content the table had during the pass.
C10_SingleSnapshot ==
    (resolved /\ ~kbError /\ ~persistError) => \E s \in snaps : decidedOn(s)

\* C11 -- the generative call is time-bounded: every routing pass resolves,
\* and a pass whose generative call stays unanswered resolves like a pass
\* whose generative call failed, with the best candidate's answer or the
\* static default.
C11_TimeBounded ==
    /\ <>resolved
    /\ (pc = "aiPending") ~> (resolved /\ returned = knowledgeOrDefault)

\* findRelevantQAPairs has returned its list to generateResponse.
listed == pc = "decide"

\* b does not go before a: a's similarity is higher, or equal with a priority
\* at least as high.
inOrder(a, b) ==
    \/ a.similarity > b.similarity
    \/ a.similarity = b.similarity /\ a.priority >= b.priority

eligible == { qa \in kb : qa.isActive /\ qa.ctxSim > 2000 }
listedIds == { relevantQAs[i].id : i \in 1..Len(relevantQAs) }

\* Row o ranks strictly above candidate c.
outranks(o, c) ==
    \/ o.ctxSim > c.similarity
    \/ o.ctxSim = c.similarity /\ o.priority > c.priority

\* C13 -- floor filter and top-N: without an exact match the list holds
\* min(5, number of eligible rows) distinct rows, each an active row with its
\* contextual score strictly above 20.00, and no row left out ranks above a
\* row that is listed.
C13_FloorAndTopN ==
    (listed /\ ~kbError /\ exactMatches = <<>>) =>
        /\ Len(relevantQAs) = (IF Cardinality(eligible) < 5
                               THEN Cardinality(eligible) ELSE 5)
        /\ Cardinality(listedIds) = Len(relevantQAs)
        /\ \A i \in 1..Len(relevantQAs) :
             \E qa \in eligible : /\ qa.id = relevantQAs[i].id
                                  /\ qa.ctxSim = relevantQAs[i].similarity
        /\ \A o \in eligible : o.id \notin listedIds =>
             \A i \in 1..Len(relevantQAs) : ~outranks(o, relevantQAs[i])

\* Six eligible rows and one exactly at the floor: five are listed, the
\* 20.01 row is the one cut and the 20.00 row is absent.
C13_Witness ==
    /\ listed /\ ~kbError /\ exactMatches = <<>>
    /\ Cardinality(eligible) = 6
    /\ Len(relevantQAs) = 5
    /\ \E qa \in kb : qa.isActive /\ qa.ctxSim = 2000
    /\ \E qa \in eligible : qa.ctxSim = 2001 /\ qa.id \notin listedIds

similarityReturned == pc = "simReturned" /\ simInput.fn = "calculateSimilarity"

\* A call of calculateContextualSimilarity has returned.
contextualReturned == pc = "simReturned" /\ simInput.fn = "calculateContextualSimilarity"

\* C15 -- identity: calculateSimilarity returns exactly 100 for two arguments
\* that are equal after trimming and lower-casing, a text against itself
\* included.
C15_Identity ==
    (similarityReturned /\ Normalize(simInput.userMessage) = Normalize(simInput.qaQuestion)) =>
        simOutput.value = 10000

\* 100 returned for two different texts that differ in case and in the
\* white space around them.
C15_Witness ==
    /\ similarityReturned
    /\ Trim(simInput.userMessage) # simInput.userMessage
    /\ Trim(simInput.userMessage) # simInput.qaQuestion
    /\ Len(simInput.qaQuestion) > 0
    /\ Normalize(simInput.userMessage) = Normalize(simInput.qaQuestion)
    /\ simOutput.value = 10000

\* C16 -- symmetry: calculateSimilarity(a, b) = calculateSimilarity(b, a),
\* and each of the four measures it combines gives the same value with its
\* two arguments exchanged.
C16_Symmetry ==
    similarityReturned =>
        LET a == simInput.userMessage
            b == simInput.qaQuestion
        IN  /\ simOutput.value = calculateSimilarity(b, a)
            /\ levenshteinSimilarity(a, b) = levenshteinSimilarity(b, a)
            /\ jaccardSimilarity(a, b) = jaccardSimilarity(b, a)
            /\ cosineSimilarity(a, b) = cosineSimilarity(b, a)
            /\ keywordSimilarity(a, b) = keywordSimilarity(b, a)

\* Two texts of different lengths that share one keyword of two, with a
\* score strictly between 0 and 100.
C16_Witness ==
    /\ similarityReturned
    /\ Len(simInput.userMessage) > Len(simInput.qaQuestion)
    /\ keywordSimilarity(simInput.userMessage, simInput.qaQuestion) = 5000
    /\ simOutput.value > 0 /\ simOutput.value < 10000

C18_EmptyPolicy ==
    similarityReturned =>
        LET emptyA == Trim(simInput.userMessage) = <<>>
            emptyB == Trim(simInput.qaQuestion) = <<>>
        IN  /\ ~simOutput.threw
            /\ (emptyA /\ emptyB) => simOutput.value = 10000
            /\ (emptyA # emptyB) => simOutput.value = 0

\* A message of white space only against an empty question: 100.
C18_Witness ==
    /\ similarityReturned
    /\ simInput.userMessage # <<>> /\ Trim(simInput.userMessage) = <<>>
    /\ simInput.qaQuestion = <<>>
    /\ simOutput.value = 10000

\* C19 -- the generative fallback is never retried: generateAIResponse is
\* called at most once in a pass, and once it has rejected the pass holds its
\* reply (the best candidate's answer or the static default) and only saves
\* and returns it.
C19_NoRetry ==
    /\ aiCalls <= 1
    /\ aiRejects => /\ pc \in {"save", "done", "replied"}
                    /\ response = knowledgeOrDefault

\* The only call has just rejected: the fallback reply is about to be saved.
C19_Witness ==
    /\ pc = "save" /\ aiRejects /\ aiCalls = 1
    /\ response = knowledgeOrDefault /\ returned = <<>>

\* C20 -- a scoring error on one entry skips only that entry: when the
\* scoring of one row fails, the list returned is the one the scoring path
\* builds from the other active rows, scored, filtered and ranked as usual.
C20_SkipOnlyThatEntry ==
    (listed /\ scoringError) =>
        relevantQAs = scoreAndRank(findManyActive({ qa \in kb : ~qa.malformed }), message)

\* The calls of sendWhatsAppMessage made by the call of processTextMessage
\* for the i-th message of the request.
sendsOf(i) == { k \in 1..Len(sends) : sends[k].call = i }
fallbackSendsOf(i) == { k \in sendsOf(i) : sends[k].responseSource = "Error Fallback" }
isTextItem(i) == request.items[i].type \in {"text", "textNoBody"}

\* C21 -- processTextMessage never propagates an exception to the webhook
\* handler: no call rejects; each call attempts the fallback send at most
\* once, and only when it did not send a reply; every call made has returned
\* to the handler's loop; a 500 of the handler never comes from a call.
C21_NeverPropagates ==
    /\ ~escaped /\ hookPc # "escaped"
    /\ request.kind = "messages" =>
         /\ \A i \in 1..Len(request.items) :
              /\ Cardinality(fallbackSendsOf(i)) <= 1
              /\ fallbackSendsOf(i) # {} => sendsOf(i) = fallbackSendsOf(i)
         /\ hookPc \in {"loop", "responded"} =>
              \A i \in 1..(item - 1) : isTextItem(i) => Cardinality(sendsOf(i)) = 1
         /\ httpStatus = 500 => item <= Len(request.items) /\ current = nullItem

\* A request of two messages is acknowledged after the first call failed
\* while reading its message and could not even send the notice, and the
\* second call's reply was refused by the API.
C21_Witness ==
    /\ hookPc = "responded" /\ httpStatus = 200 /\ request.kind = "messages"
    /\ Len(sends) = 2
    /\ sends[1].responseSource = "Error Fallback" /\ ~sends[1].success
    /\ sends[2].responseSource = "Intelligent System" /\ ~sends[2].success

\* C22 -- the webhook POST endpoint always acknowledges with 200 OK: every
\* request that was responded to got status 200.
C22_Always200 == hookPc = "responded" => httpStatus = 200

\* C24 -- replies are sent with tracking: for every reply that
\* processTextMessage sent successfully, trackSentMessage was invoked with
\* the WhatsApp message id the send returned.
C24_RepliesTracked ==
    \A k \in 1..Len(sends) :
        (sends[k].responseSource = "Intelligent System" /\ sends[k].success) =>
            \E t \in 1..Len(tracked) : tracked[t].whatsappMessageId = sends[k].messageId

\* The whitespace-separated pieces of a text: its maximal runs of characters
\* that are no white space, and the empty piece that white space at either
\* end, or an empty text, leaves.
piecesOf(t) ==
    { SubSeq(t, ab[1], ab[2]) :
        ab \in { x \in (1..Len(t)) \X (1..Len(t)) :
                   /\ x[1] <= x[2]
                   /\ \A i \in x[1]..x[2] : ~isSpace(t[i])
                   /\ x[1] = 1 \/ isSpace(t[x[1] - 1])
                   /\ x[2] = Len(t) \/ isSpace(t[x[2] + 1]) } }
    \cup (IF t = << >> \/ isSpace(t[1]) \/ isSpace(t[Len(t)]) THEN { << >> } ELSE {})

\* The tags of which a piece of the lower-cased message is a part, or which
\* are a part of such a piece, without regard to case.
matchingTags(m, tags) ==
    { i \in 1..Len(tags) :
        \E w \in piecesOf(ToLowerCase(m)) :
            \/ includes(w, ToLowerCase(tags[i]))
            \/ includes(ToLowerCase(tags[i]), w) }

C27_WhitespaceInsensitive ==
    contextualReturned =>
        /\ simOutput.value =
             contextualSimilarity(Trim(simInput.userMessage), simInput.qaQuestion,
                                  simInput.qaAnswer, simInput.qaTags)
        /\ Trim(simInput.userMessage) = << >> =>
             tagMatches(simInput.userMessage, simInput.qaTags) = << >>

\* sendMessage has returned; the attempts it made.
smReturned == smPc = "returned"
attemptsMade == Len(sends)
apiSucceeded(k) == sends[k].success

\* C25 -- bounded retry of sendMessage: at most retryAttempts attempts;
\* success, with the id, as soon as one attempt succeeds; failure only after
\* retryAttempts failed attempts, the record then being 'failed' with the
\* last error; the record is 'sent' exactly when the call returned success.
C25_BoundedRetry ==
    /\ attemptsMade <= smCall.retryAttempts
    /\ smReturned =>
         /\ smCall.result.success <=>
              /\ attemptsMade > 0
              /\ apiSucceeded(attemptsMade)
              /\ smCall.result.messageId = sends[attemptsMade].messageId
         /\ \A k \in 1..(attemptsMade - 1) : ~apiSucceeded(k)
         /\ ~smCall.result.success =>
              /\ attemptsMade = smCall.retryAttempts
              /\ smCall.recordId # noInternalId
              /\ smRecord.status = "failed"
              /\ smRecord.errorDetails = smCall.lastError
         /\ smCall.result.success <=>
              (smCall.recordId # noInternalId /\ smRecord.status = "sent")

\* C26 -- at-most-once submission per sendMessage call: no attempt is made
\* after an attempt whose WhatsApp API call succeeded.
C26_AtMostOnce ==
    \A k \in 1..Len(sends) : apiSucceeded(k) => k = Len(sends)

\* A stored status that moves backwards along sent, delivered, read.
regresses(before, after) ==
    \/ before = "read" /\ after \in {"delivered", "sent"}
    \/ before = "delivered" /\ after = "sent"

\* C28 -- message status never regresses: whatever the order in which the
\* status webhooks of a message are processed, no step takes the stored
\* status of a message from 'read' back to 'delivered' or 'sent', or from
\* 'delivered' back to 'sent'.
C28_NoRegression ==
    [][\A m \in msgTable : \A n \in msgTable' :
          n.id = m.id => ~regresses(m.status, n.status)]_vars

\* The handler is about to process a status update.
atStatus == atItem /\ request.kind = "statuses" /\ current # nullItem

\* C29 -- frame of updateMessageStatus: processing a status update for id X
\* leaves every message with another whatsappMessageId as it was (status,
\* deliveredAt, readAt, failedAt), and adds at most one row, a placeholder
\* for X.
C29_Frame ==
    [][atStatus =>
         /\ \A m \in msgTable : m.whatsappMessageId # current.id => m \in msgTable'
         /\ \A n \in msgTable' :
              (\A m \in msgTable : m.id # n.id) => n.whatsappMessageId = current.id
         /\ Cardinality(msgTable') <= Cardinality(msgTable) + 1]_vars

\* C30 -- find-or-create of a client is safe under interleaving: when the two
\* callers have both finished a call for the same phone number, they both
\* obtained the id of the one client record with that phone, and neither
\* call failed.
C30_SafeFindOrCreate ==
    (procs # << >> /\ \A p \in Callers : procs[p].pc = "done") =>
        \A p \in Callers, q \in Callers :
            procs[p].phone = procs[q].phone =>
                /\ Cardinality({ c \in clientTable : c.phone = procs[p].phone }) = 1
                /\ procs[p].result = "returned"
                /\ procs[p].id = clientOf(clientTable, procs[p].phone).id
                /\ procs[q].id = procs[p].id

====
